---- MODULE Spec2Model ----
(***************************************************************************)
(* Model of the analytics dashboard (public/js/analytics-dashboard.js):    *)
(* the loader that normalises the stored document, the frontend            *)
(* aggregator of per-country series, the rolling-window / growth           *)
(* calculator, and the dashboard update that feeds the cards and charts.   *)
(*                                                                         *)
(* JavaScript values are tagged records: Null, Undefined, Num(n) and       *)
(* objects [t |-> "obj", keys |-> insertion-ordered keys, at |-> values].  *)
(* A per-date metric record is a function from its present field names to  *)
(* numbers; pageviews and rolling sums are integers, growth percentages    *)
(* are exact fractions <<numerator, denominator>> (<<0,0>> is NaN,         *)
(* <<1,0>> and <<-1,0>> are the infinities).  Dates are day numbers; the   *)
(* ISO strings of the program compare and sort the same way.               *)
(***************************************************************************)
EXTENDS Integers, Sequences, FiniteSets, TLC

VARIABLES stored,          \* the document processed_analytics/latest
          pc,              \* position of initialize(): "init", "fetching", "done"
          listening,       \* the change listener is installed
          currentMetrics,  \* this.currentMetrics
          filter,          \* value of the countryFilter select
          cutoffDate,      \* content of #cutoffDate: <<>> or <<yesterdayStr>>
          errorShown,      \* content of the error container: <<>> or <<message>>
          cards,           \* content of the three metric cards
          charts,          \* the series last handed to Plotly.newPlot
          thrown,          \* <<handler>> when the last handler run ended in an
                           \* uncaught exception, <<>> otherwise
          calls            \* the methods the last handler run invoked

vars == <<stored, pc, listening, currentMetrics, filter, cutoffDate,
          errorShown, cards, charts, thrown, calls>>

----------------------------------------------------------------------------
(* Bounds of the explored inputs *)

MaxLen == 57

MaxPv == 2

MaxShort == 8

----------------------------------------------------------------------------
(* JavaScript values *)

Null == [t |-> "null"]

Undefined == [t |-> "undefined"]

Num(n) == [t |-> "num", n |-> n]

Obj(keys, at) == [t |-> "obj", keys |-> keys, at |-> at]

EmptyObj == [t |-> "obj", keys |-> <<>>, at |-> <<>>]

\* obj[k]; the caller checks CanRead first (a read on null/undefined throws)
Get(v, k) == IF v.t = "obj" /\ k \in DOMAIN v.at THEN v.at[k] ELSE Undefined

CanRead(v) == v.t \notin {"null", "undefined"}

Truthy(v) == CASE v.t = "null" -> FALSE
               [] v.t = "undefined" -> FALSE
               [] v.t = "num" -> v.n # 0
               [] OTHER -> TRUE

\* Object.keys(v): insertion order for an object, nothing for a number
ObjectKeys(v) == IF v.t = "obj" THEN v.keys ELSE <<>>

Range(s) == {s[i] : i \in DOMAIN s}

RECURSIVE Ascending(_, _, _)
\* the members of S among the days lo..hi, in ascending order
Ascending(S, lo, hi) ==
    IF lo > hi THEN <<>>
    ELSE IF lo = hi THEN (IF lo \in S THEN <<lo>> ELSE <<>>)
    ELSE LET mid == (lo + hi) \div 2
         IN Ascending(S, lo, mid) \o Ascending(S, mid + 1, hi)

\* Array.prototype.sort() on date keys: the keys in ascending order, found by
\* walking the days from the smallest key to the largest
Sort(s) ==
    IF s = <<>> THEN <<>>
    ELSE LET S == Range(s)
             lo == CHOOSE x \in S : \A y \in S : x <= y
             hi == CHOOSE x \in S : \A y \in S : x >= y
         IN Ascending(S, lo, hi)

----------------------------------------------------------------------------
(* Numbers: growth percentages as exact fractions *)

Abs(n) == IF n < 0 THEN -n ELSE n

RECURSIVE GCD(_, _)
GCD(a, b) == IF b = 0 THEN a ELSE GCD(b, a % b)

Frac(n, d) == IF d = 0 THEN <<(IF n > 0 THEN 1 ELSE IF n < 0 THEN -1 ELSE 0), 0>>
              ELSE LET g == GCD(Abs(n), Abs(d))
                       s == IF d < 0 THEN -1 ELSE 1
                   IN <<(s * n) \div g, (s * d) \div g>>

Zero == <<0, 1>>

IsFinite(q) == q[2] # 0

IsNaN(q) == q = <<0, 0>>

\* (cur / prev - 1) * 100
GrowthPct(cur, prev) == Frac((cur - prev) * 100, prev)

----------------------------------------------------------------------------
(* Per-date metric records *)

Has(rec, f) == f \in DOMAIN rec

SetField(rec, f, v) == [x \in (DOMAIN rec) \cup {f} |-> IF x = f THEN v ELSE rec[x]]

\* truthiness of a numeric field read off a record (absent reads undefined)
TruthyInt(rec, f) == Has(rec, f) /\ rec[f] # 0

\* rec.f || 0 for an integer field
OrZero(rec, f) == IF TruthyInt(rec, f) THEN rec[f] ELSE 0

\* rec.f || 0 for a growth field (0 and NaN are falsy)
OrZeroQ(rec, f) == IF Has(rec, f) /\ rec[f] # Zero /\ ~IsNaN(rec[f]) THEN rec[f] ELSE Zero

ZeroMetrics == [pageviews |-> 0, rolling_7 |-> 0, rolling_28 |-> 0,
                growth_7 |-> Zero, growth_28 |-> Zero]

----------------------------------------------------------------------------
(* _calculateRollingMetrics: at is metrics.daily, ds is datesSorted,       *)
(* indices are the 0-based indices of the code.                            *)

RECURSIVE SumPageviews(_, _, _, _)
\* for (j = lo; j <= hi; j++) sum += metrics.daily[datesSorted[j]].pageviews,
\* added up half by half
SumPageviews(at, ds, lo, hi) ==
    IF lo > hi THEN 0
    ELSE IF lo = hi THEN at[ds[lo + 1]].pageviews
    ELSE LET mid == (lo + hi) \div 2
         IN SumPageviews(at, ds, lo, mid) + SumPageviews(at, ds, mid + 1, hi)

\* variant: the 7-day window starts one position late (j = i - 5)
Calc7ShortWindow(at, ds, i) ==
    IF i >= 6
    THEN LET date == ds[i + 1]
             sum7 == SumPageviews(at, ds, i - 5, i)
             a1 == [at EXCEPT ![date] = SetField(@, "rolling_7", sum7)]
         IN IF i >= 13
            THEN LET previousSum7 == SumPageviews(at, ds, i - 13, i - 7)
                 IN IF previousSum7 > 0
                    THEN [a1 EXCEPT ![date] =
                            SetField(@, "growth_7", GrowthPct(sum7, previousSum7))]
                    ELSE a1
            ELSE a1
    ELSE at

\* variant: the previous window is taken one position early (i - 14 .. i - 8)
Calc7EarlyPrevious(at, ds, i) ==
    IF i >= 6
    THEN LET date == ds[i + 1]
             sum7 == SumPageviews(at, ds, i - 6, i)
             a1 == [at EXCEPT ![date] = SetField(@, "rolling_7", sum7)]
         IN IF i >= 14
            THEN LET previousSum7 == SumPageviews(at, ds, i - 14, i - 8)
                 IN IF previousSum7 > 0
                    THEN [a1 EXCEPT ![date] =
                            SetField(@, "growth_7", GrowthPct(sum7, previousSum7))]
                    ELSE a1
            ELSE a1
    ELSE at

\* variant: the growth is computed without the previousSum7 > 0 guard
Calc7Unguarded(at, ds, i) ==
    IF i >= 6
    THEN LET date == ds[i + 1]
             sum7 == SumPageviews(at, ds, i - 6, i)
             a1 == [at EXCEPT ![date] = SetField(@, "rolling_7", sum7)]
         IN IF i >= 13
            THEN LET previousSum7 == SumPageviews(at, ds, i - 13, i - 7)
                 IN [a1 EXCEPT ![date] =
                        SetField(@, "growth_7", GrowthPct(sum7, previousSum7))]
            ELSE a1
    ELSE at

\* variant: the window sum is added to the value already on the record
Calc7Accumulate(at, ds, i) ==
    IF i >= 6
    THEN LET date == ds[i + 1]
             sum7 == SumPageviews(at, ds, i - 6, i)
             a1 == [at EXCEPT ![date] = SetField(@, "rolling_7", @.rolling_7 + sum7)]
         IN IF i >= 13
            THEN LET previousSum7 == SumPageviews(at, ds, i - 13, i - 7)
                 IN IF previousSum7 > 0
                    THEN [a1 EXCEPT ![date] =
                            SetField(@, "growth_7", GrowthPct(sum7, previousSum7))]
                    ELSE a1
            ELSE a1
    ELSE at

\* body of the 7-day branch for index i
Calc7(at, ds, i) ==
    IF i >= 6
    THEN LET date == ds[i + 1]
             sum7 == SumPageviews(at, ds, i - 6, i)
             a1 == [at EXCEPT ![date] = SetField(@, "rolling_7", sum7)]
         IN IF i >= 13
            THEN LET previousSum7 == SumPageviews(at, ds, i - 13, i - 7)
                 IN IF previousSum7 > 0
                    THEN [a1 EXCEPT ![date] =
                            SetField(@, "growth_7", GrowthPct(sum7, previousSum7))]
                    ELSE a1
            ELSE a1
    ELSE at

\* body of the 28-day branch for index i
Calc28(at, ds, i) ==
    IF i >= 27
    THEN LET date == ds[i + 1]
             sum28 == SumPageviews(at, ds, i - 27, i)
             a1 == [at EXCEPT ![date] = SetField(@, "rolling_28", sum28)]
         IN IF i >= 55
            THEN LET previousSum28 == SumPageviews(at, ds, i - 55, i - 28)
                 IN IF previousSum28 > 0
                    THEN [a1 EXCEPT ![date] =
                            SetField(@, "growth_28", GrowthPct(sum28, previousSum28))]
                    ELSE a1
            ELSE a1
    ELSE at

\* one iteration of the for loop
CalcIteration(at, ds, i) == Calc28(Calc7(at, ds, i), ds, i)

\* for (let i = 0; i < datesSorted.length; i++): iteration i writes only the
\* record of datesSorted[i] and reads only pageviews, which no iteration
\* writes, so each date ends with the record its own iteration leaves
CalcLoop(at, ds) ==
    [date \in DOMAIN at |->
        IF \E i \in 0..(Len(ds) - 1) : ds[i + 1] = date
        THEN CalcIteration(at, ds, (CHOOSE i \in 0..(Len(ds) - 1) : ds[i + 1] = date))[date]
        ELSE at[date]]

\* _calculateRollingMetrics(metrics, datesSorted), on the daily object
CalculateRollingMetrics(daily, ds) == Obj(daily.keys, CalcLoop(daily.at, ds))

----------------------------------------------------------------------------
(* _aggregateAllCountries *)

RECURSIVE NotIn(_, _, _, _)
\* the elements lo..hi of s that are not in S, order kept
NotIn(s, S, lo, hi) ==
    IF lo > hi THEN <<>>
    ELSE IF lo = hi THEN (IF s[lo] \in S THEN <<>> ELSE <<s[lo]>>)
    ELSE LET mid == (lo + hi) \div 2
         IN NotIn(s, S, lo, mid) \o NotIn(s, S, mid + 1, hi)

\* Set.add for each key of s (keys of one object, so distinct), keeping
\* first-insertion order
AddAll(acc, s) == acc \o NotIn(s, Range(acc), 1, Len(s))

RECURSIVE CollectDates(_, _, _)
\* first forEach: the dates of every country that has a daily mapping
CollectDates(countryData, i, acc) ==
    IF i > Len(countryData.keys) THEN acc
    ELSE LET country == countryData.at[countryData.keys[i]]
             daily == Get(country, "daily")
         IN CollectDates(countryData, i + 1,
                IF Truthy(daily) THEN AddAll(acc, ObjectKeys(daily)) ELSE acc)

\* variant: the entry's pageviews replace the running total (= for +=)
CombineEntryOverwrite(at, date, metrics) ==
    LET a0 == [at EXCEPT ![date].pageviews = OrZero(metrics, "pageviews")]
        a1 == IF TruthyInt(metrics, "rolling_7")
              THEN [a0 EXCEPT ![date].rolling_7 = @ + metrics.rolling_7]
              ELSE a0
    IN IF TruthyInt(metrics, "rolling_28")
       THEN [a1 EXCEPT ![date].rolling_28 = @ + metrics.rolling_28]
       ELSE a1

\* variant: the rolling sums supplied upstream are not added up
CombineEntryPageviewsOnly(at, date, metrics) ==
    [at EXCEPT ![date].pageviews = @ + OrZero(metrics, "pageviews")]

\* one entry [date, metrics] of a country's daily mapping
CombineEntry(at, date, metrics) ==
    LET a0 == [at EXCEPT ![date].pageviews = @ + OrZero(metrics, "pageviews")]
        a1 == IF TruthyInt(metrics, "rolling_7")
              THEN [a0 EXCEPT ![date].rolling_7 = @ + metrics.rolling_7]
              ELSE a0
    IN IF TruthyInt(metrics, "rolling_28")
       THEN [a1 EXCEPT ![date].rolling_28 = @ + metrics.rolling_28]
       ELSE a1

\* Object.entries(country.daily).forEach: the entry of a date touches only
\* the combined record of that date, and a date has one entry per country
CombineCountry(at, daily) ==
    [date \in DOMAIN at |->
        IF date \in DOMAIN daily.at
        THEN CombineEntry(at, date, daily.at[date])[date]
        ELSE at[date]]

RECURSIVE CombineAll(_, _, _)
\* second forEach: sum every country's records into the combined series
CombineAll(at, countryData, i) ==
    IF i > Len(countryData.keys) THEN at
    ELSE LET country == countryData.at[countryData.keys[i]]
             daily == Get(country, "daily")
         IN CombineAll(IF Truthy(daily) THEN CombineCountry(at, daily) ELSE at,
                       countryData, i + 1)

\* the combined daily object before the rolling metrics are looked at
SummedDaily(countryData) ==
    LET allDates == CollectDates(countryData, 1, <<>>)
        init == [d \in Range(allDates) |-> ZeroMetrics]
    IN Obj(allDates, CombineAll(init, countryData, 1))

\* the guard of line 122: the earliest date carries no (non-zero) rolling_7
NeedsCalculation(daily, datesSorted) == ~TruthyInt(daily.at[datesSorted[1]], "rolling_7")

\* country.daily on a null value, or allMetrics.daily[undefined].rolling_7
\* when no date was collected, is a TypeError
AggregateThrows(countryData) ==
    \/ \E k \in Range(countryData.keys) : ~CanRead(countryData.at[k])
    \/ CollectDates(countryData, 1, <<>>) = <<>>

\* lines 120-126: the rolling metrics are calculated unless the earliest
\* date already has a rolling_7; the result is { daily: ... }
FinishAggregate(summed) ==
    LET datesSorted == Sort(summed.keys)
        daily == IF NeedsCalculation(summed, datesSorted)
                 THEN CalculateRollingMetrics(summed, datesSorted)
                 ELSE summed
    IN Obj(<<"daily">>, [k \in {"daily"} |-> daily])

\* _aggregateAllCountries(countryData) when it returns
AggregateAllCountries(countryData) == FinishAggregate(SummedDaily(countryData))

----------------------------------------------------------------------------
(* The page (public/index.html) *)

\* the options of the countryFilter select that are explored
Countries == {"all", "no", "dk"}

\* index.html has no element with id "dashboard-container"
HasDashboardContainer == FALSE

\* index.html loads plotly-latest.min.js before the module script
PlotlyLoaded == TRUE

NoCard == [set |-> FALSE]

NoCards == [pageviews |-> NoCard, visitors |-> NoCard, timeOnSite |-> NoCard]

NoCharts == [set |-> FALSE]

----------------------------------------------------------------------------
(* updateMetricCards *)

DefaultMetrics == ZeroMetrics

\* value.toFixed(1) as a number of tenths, rounding half away from zero
ToFixed1(q) ==
    IF ~IsFinite(q) THEN q
    ELSE LET a == Abs(q[1])
             t == (20 * a + q[2]) \div (2 * q[2])
         IN <<(IF q[1] < 0 THEN -t ELSE t), 10>>

\* formatGrowth(value): the "+" prefix and the rounded value
FormatGrowth(q) == [plus |-> q[1] > 0 /\ ~IsNaN(q), value |-> ToFixed1(q)]

GrowthColorClass(q) ==
    IF IsNaN(q) THEN "text-gray-800"
    ELSE IF q[2] = 0 THEN (IF q[1] > 0 THEN "text-green-600" ELSE "text-red-600")
    ELSE IF q[1] > 5 * q[2] THEN "text-green-600"
    ELSE IF q[1] < -5 * q[2] THEN "text-red-600"
    ELSE "text-gray-800"

\* data.daily[yesterdayStr] || defaults
YesterdayMetrics(data, y) ==
    LET daily == Get(data, "daily")
    IN IF y \in DOMAIN daily.at THEN daily.at[y] ELSE DefaultMetrics

\* how many of the three cards are written before a TypeError stops the method
\* (3: no exception); data is known to have a daily mapping here
CardsWritten(m) ==
    IF ~Has(m, "pageviews") THEN 0
    ELSE IF ~Has(m, "rolling_7") \/ ~Has(m, "growth_7") THEN 1
    ELSE IF ~Has(m, "rolling_28") \/ ~Has(m, "growth_28") THEN 2
    ELSE 3

RollingCard(m, r, g) ==
    [set |-> TRUE, value |-> m[r], color |-> GrowthColorClass(m[g]),
     growth |-> FormatGrowth(m[g])]

\* data.daily[yesterdayStr] cannot be read: data or data.daily is undefined
MetricCardsCannotStart(data) == ~CanRead(data) \/ ~CanRead(Get(data, "daily"))

UpdateMetricCards(old, data, y) ==
    LET m == YesterdayMetrics(data, y)
        n == CardsWritten(m)
    IN [pageviews |-> IF n >= 1 THEN [set |-> TRUE, value |-> m.pageviews]
                      ELSE old.pageviews,
        visitors |-> IF n >= 2 THEN RollingCard(m, "rolling_7", "growth_7")
                     ELSE old.visitors,
        timeOnSite |-> IF n >= 3 THEN RollingCard(m, "rolling_28", "growth_28")
                       ELSE old.timeOnSite]

MetricCardsThrow(data, y) ==
    MetricCardsCannotStart(data) \/ CardsWritten(YesterdayMetrics(data, y)) < 3

----------------------------------------------------------------------------
(* updateCharts *)

RECURSIVE UpTo(_, _, _, _)
\* the elements lo..hi of s that are <= y, order kept
UpTo(s, y, lo, hi) ==
    IF lo > hi THEN <<>>
    ELSE IF lo = hi THEN (IF s[lo] <= y THEN <<s[lo]>> ELSE <<>>)
    ELSE LET mid == (lo + hi) \div 2
         IN UpTo(s, y, lo, mid) \o UpTo(s, y, mid + 1, hi)

\* .filter((date) => date <= yesterdayStr), order kept
FilterUpTo(s, y) == UpTo(s, y, 1, Len(s))

\* variant: the filtered keys are not sorted
ChartDatesUnsorted(data, y) == FilterUpTo(ObjectKeys(Get(data, "daily")), y)

\* Filter and sort dates up to yesterday
ChartDates(data, y) == Sort(FilterUpTo(ObjectKeys(Get(data, "daily")), y))

UpdateCharts(old, data, y) ==
    LET dates == ChartDates(data, y)
        at == Get(data, "daily").at
    IN IF ~PlotlyLoaded \/ Len(dates) = 0 THEN old
       ELSE [set |-> TRUE,
             x |-> dates,
             pageviews |-> [i \in DOMAIN dates |-> OrZero(at[dates[i]], "pageviews")],
             rolling7day |-> [i \in DOMAIN dates |-> OrZero(at[dates[i]], "rolling_7")],
             rolling28day |-> [i \in DOMAIN dates |-> OrZero(at[dates[i]], "rolling_28")],
             growth7day |-> [i \in DOMAIN dates |-> OrZeroQ(at[dates[i]], "growth_7")],
             growth28day |-> [i \in DOMAIN dates |-> OrZeroQ(at[dates[i]], "growth_28")]]

----------------------------------------------------------------------------
(* updateDashboard *)

\* country === "all" ? currentMetrics.all : currentMetrics.by_country[country]
SelectedData(cm, country) ==
    IF country = "all" THEN Get(cm, "all")
    ELSE Get(Get(cm, "by_country"), country)

\* the effect of updateDashboard() on the page; it throws when the bundle
\* is missing or when updateMetricCards throws
UpdateDashboard(cm, country, y) ==
    IF ~CanRead(cm)
    THEN [cutoffDate |-> cutoffDate, cards |-> cards, charts |-> charts,
          threw |-> TRUE, calls |-> {"updateDashboard"}]
    ELSE LET data == SelectedData(cm, country)
         IN IF MetricCardsCannotStart(data)
            THEN [cutoffDate |-> <<y>>, cards |-> cards, charts |-> charts,
                  threw |-> TRUE, calls |-> {"updateDashboard", "updateMetricCards"}]
            ELSE IF MetricCardsThrow(data, y)
            THEN [cutoffDate |-> <<y>>, cards |-> UpdateMetricCards(cards, data, y),
                  charts |-> charts, threw |-> TRUE,
                  calls |-> {"updateDashboard", "updateMetricCards"}]
            ELSE [cutoffDate |-> <<y>>, cards |-> UpdateMetricCards(cards, data, y),
                  charts |-> UpdateCharts(charts, data, y), threw |-> FALSE,
                  calls |-> {"updateDashboard", "updateMetricCards", "updateCharts"}]

----------------------------------------------------------------------------
(* loadData *)

RECURSIVE EveryDaily(_, _)
\* variant: every() in place of some()
EveryDaily(rawData, i) ==
    IF i > Len(ObjectKeys(rawData)) THEN (IF i > 1 THEN "true" ELSE "false")
    ELSE LET v == rawData.at[rawData.keys[i]]
         IN IF ~CanRead(v) THEN "throw"
            ELSE IF ~Truthy(Get(v, "daily")) THEN "false"
            ELSE EveryDaily(rawData, i + 1)

RECURSIVE SomeDaily(_, _)
\* Object.keys(rawData).some((key) => rawData[key].daily) from key i on:
\* "true", "false", or "throw" when a null value is read first
SomeDaily(rawData, i) ==
    IF i > Len(ObjectKeys(rawData)) THEN "false"
    ELSE LET v == rawData.at[rawData.keys[i]]
         IN IF ~CanRead(v) THEN "throw"
            ELSE IF Truthy(Get(v, "daily")) THEN "true"
            ELSE SomeDaily(rawData, i + 1)

\* the branch of the if / else if / else of lines 49-68 taken for rawData
Classify(rawData) ==
    IF Truthy(Get(rawData, "all")) /\ Truthy(Get(rawData, "by_country"))
    THEN "canonical"
    ELSE IF ~Truthy(Get(rawData, "all"))
    THEN LET some == SomeDaily(rawData, 1)
         IN IF some = "true" THEN "raw"
            ELSE IF some = "false" THEN "unrecognized"
            ELSE "throws"
    ELSE "unrecognized"

\* { all: this._aggregateAllCountries(rawData), by_country: rawData }
Bundle(all, byCountry) ==
    Obj(<<"all", "by_country">>,
        [k \in {"all", "by_country"} |-> IF k = "all" THEN all ELSE byCountry])

\* the calls _aggregateAllCountries makes when it returns
AggregateCalls(summed) ==
    IF NeedsCalculation(summed, Sort(summed.keys))
    THEN {"_aggregateAllCountries", "_calculateRollingMetrics"}
    ELSE {"_aggregateAllCountries"}

\* showError(message): the container is looked up and its content replaced
ShowError(message) ==
    /\ calls' = {"loadData", "showError"}
    /\ IF HasDashboardContainer
       THEN errorShown' = <<message>> /\ thrown' = <<>>
       ELSE errorShown' = errorShown /\ thrown' = <<"loadData">>
    /\ UNCHANGED <<currentMetrics, cutoffDate, cards, charts>>

\* this.currentMetrics = cm; this.updateDashboard()
InstallAndUpdate(cm, y, made) ==
    LET u == UpdateDashboard(cm, filter, y)
    IN /\ currentMetrics' = cm
       /\ cutoffDate' = u.cutoffDate
       /\ cards' = u.cards
       /\ charts' = u.charts
       /\ thrown' = IF u.threw THEN <<"loadData">> ELSE <<>>
       /\ calls' = {"loadData"} \cup made \cup u.calls
       /\ UNCHANGED errorShown

Throw(handler, made) ==
    /\ thrown' = <<handler>>
    /\ calls' = {handler} \cup made
    /\ UNCHANGED <<currentMetrics, cutoffDate, cards, charts, errorShown>>

----------------------------------------------------------------------------
(* The clock: the values of "yesterday" explored *)

Yesterdays == {0, 7, MaxLen}

----------------------------------------------------------------------------
(* Actions *)

\* initialize() up to the await of getDoc inside loadData()
Initialize ==
    /\ pc = "init"
    /\ pc' = "fetching"
    /\ listening' = TRUE
    /\ UNCHANGED <<stored, currentMetrics, filter, cutoffDate, errorShown,
                   cards, charts, thrown, calls>>

\* loadData() from the moment getDoc resolves
LoadData ==
    /\ pc = "fetching"
    /\ pc' = "done"
    /\ UNCHANGED <<stored, listening, filter>>
    /\ IF ~stored.exists THEN ShowError("Analytics data not found")
       ELSE IF ~Truthy(stored.data) THEN ShowError("No data available")
       ELSE LET rawData == stored.data
                shape == Classify(rawData)
            IN CASE shape = "canonical" ->
                      \E y \in Yesterdays : InstallAndUpdate(rawData, y, {})
                 [] shape = "raw" ->
                      IF AggregateThrows(rawData)
                      THEN Throw("loadData", {"_aggregateAllCountries"})
                      ELSE LET summed == SummedDaily(rawData)
                               bundle == Bundle(FinishAggregate(summed), rawData)
                           IN \E y \in Yesterdays :
                                 InstallAndUpdate(bundle, y, AggregateCalls(summed))
                 [] shape = "unrecognized" ->
                      ShowError("Data format error. Please check the console.")
                 [] OTHER -> Throw("loadData", {})

\* the change listener of the countryFilter select: updateDashboard()
ChangeFilter ==
    /\ listening
    /\ \E country \in Countries \ {filter}, y \in Yesterdays :
         LET u == UpdateDashboard(currentMetrics, country, y)
         IN /\ filter' = country
            /\ cutoffDate' = u.cutoffDate
            /\ cards' = u.cards
            /\ charts' = u.charts
            /\ thrown' = IF u.threw THEN <<"change">> ELSE <<>>
            /\ calls' = u.calls
    /\ UNCHANGED <<stored, pc, listening, currentMetrics, errorShown>>

Next == Initialize \/ LoadData \/ ChangeFilter

----------------------------------------------------------------------------
(* The stored documents explored *)

Country(daily) == Obj(<<"daily">>, [k \in {"daily"} |-> daily])

\* a long contiguous series from day 1: a pageviews a day up to day sw, b after
LongDaily(len, a, b, sw) ==
    Obj([i \in 1..len |-> i],
        [d \in 1..len |-> [pageviews |-> IF d <= sw THEN a ELSE b]])

\* the record at 0-based position idx of a short series; up says which
\* records carry fields computed upstream
ShortRecord(idx, pv, up, missPv) ==
    LET base == IF missPv /\ idx = 0 THEN <<>> ELSE [pageviews |-> pv]
    IN CASE up = "first" /\ idx = 0 -> base @@ [rolling_7 |-> 5]
         [] up = "later" /\ idx = 6 -> base @@ [rolling_7 |-> 5, rolling_28 |-> 9]
         [] up = "all" -> base @@ [rolling_7 |-> 5, rolling_28 |-> 9,
                                    growth_7 |-> <<5, 2>>, growth_28 |-> Zero]
         [] OTHER -> base

\* a short series of len days from day start, keys inserted ascending or descending
ShortDaily(start, len, pv, up, missPv, desc) ==
    Obj([i \in 1..len |-> IF desc THEN start + len - i ELSE start + i - 1],
        [d \in start..(start + len - 1) |-> ShortRecord(d - start, pv, up, missPv)])

Ups == {"none", "first", "later", "all"}

ShortLens == {0, 1, MaxShort}

Doc(data) == [exists |-> TRUE, data |-> data]

Keyed(keys, f) == Obj(keys, [k \in Range(keys) |-> f[k]])

\* a value that is not a country object with a daily mapping
Oddities == {Null, Num(123), EmptyObj}

\* the lengths of the long series: around each threshold of the calculator
LongLens == {0, 1, 6, 7, 13, 14, 27, 28, 55, 56, MaxLen}

\* raw documents with the single country "no" and a long series
InitLong ==
    \E len \in LongLens, a \in {0, 1}, b \in {0, MaxPv}, sw \in {7, 28} :
        stored = Doc(Keyed(<<"no">>, [k \in {"no"} |-> Country(LongDaily(len, a, b, sw))]))

\* the 14 days of 10 pageviews each of the documentation
InitExample ==
    stored = Doc(Keyed(<<"no">>, [k \in {"no"} |-> Country(LongDaily(14, 10, 10, 7))]))

\* raw documents with the countries "no" and "se" and short series
InitShort ==
    \E len \in ShortLens, up \in Ups, missPv \in BOOLEAN, desc \in BOOLEAN,
       len2 \in {0, MaxShort}, up2 \in {"none", "all"} :
        stored = Doc(Keyed(<<"no", "se">>,
                    [k \in {"no", "se"} |->
                        IF k = "no"
                        THEN Country(ShortDaily(1, len, 1, up, missPv, desc))
                        ELSE Country(ShortDaily(3, len2, 2, up2, FALSE, FALSE))]))

\* documents in which a value is null, a number or an object without daily
InitOdd ==
    \E odd \in Oddities, len \in ShortLens, first \in BOOLEAN, key \in {"no", "foo"} :
        \/ stored = Doc(Keyed(<<key>>, [k \in {key} |-> odd]))
        \/ stored = Doc(Keyed(IF first THEN <<key, "se">> ELSE <<"se", key>>,
                     [k \in {key, "se"} |->
                        IF k = key THEN odd
                        ELSE Country(ShortDaily(1, len, 2, "none", FALSE, FALSE))]))

\* documents with an all key
InitCanonical ==
    \E pvAll \in 1..MaxPv, upAll \in {"none", "all"}, upNo \in {"none", "all"},
       desc \in BOOLEAN, shape \in {"both", "allOnly", "allNull", "allZero", "byNumber"} :
        LET all == Country(ShortDaily(1, MaxShort, pvAll, upAll, FALSE, desc))
            no == Country(ShortDaily(1, MaxShort, 1, upNo, FALSE, FALSE))
            byCountry == Keyed(<<"no">>, [k \in {"no"} |-> no])
        IN stored =
             CASE shape = "both" ->
                    Doc(Keyed(<<"all", "by_country">>,
                        [k \in {"all", "by_country"} |-> IF k = "all" THEN all ELSE byCountry]))
               [] shape = "allOnly" -> Doc(Keyed(<<"all">>, [k \in {"all"} |-> all]))
               [] shape = "allNull" ->
                    Doc(Keyed(<<"no", "all">>, [k \in {"all", "no"} |-> IF k = "all" THEN Null ELSE no]))
               [] shape = "allZero" ->
                    Doc(Keyed(<<"all", "no">>, [k \in {"all", "no"} |-> IF k = "all" THEN Num(0) ELSE no]))
               [] OTHER ->
                    Doc(Keyed(<<"all", "by_country">>,
                        [k \in {"all", "by_country"} |-> IF k = "all" THEN all ELSE Num(1)]))

\* no document, a document without a data field, a data field that is a number
InitNoData ==
    \/ stored = [exists |-> FALSE]
    \/ stored = Doc(Undefined)
    \/ stored = Doc(Num(5))

Init ==
    /\ InitLong \/ InitExample \/ InitShort \/ InitOdd \/ InitCanonical \/ InitNoData
    /\ pc = "init"
    /\ listening = FALSE
    /\ currentMetrics = Null
    /\ filter = "all"
    /\ cutoffDate = <<>>
    /\ errorShown = <<>>
    /\ cards = NoCards
    /\ charts = NoCharts
    /\ thrown = <<>>
    /\ calls = {}

Spec == Init /\ [][Next]_vars

----------------------------------------------------------------------------
(* Vocabulary of the properties.  Sums and positions are defined here on   *)
(* sets, independently of the operators that model the code.               *)

RECURSIVE SetSum(_, _)
\* the sum of f over the finite set S
SetSum(f, S) ==
    IF S = {} THEN 0
    ELSE LET x == CHOOSE x \in S : TRUE IN f[x] + SetSum(f, S \ {x})

\* the last handler that ran was loadData
AfterLoad == "loadData" \in calls

\* loadData has just installed a bundle whose all series the aggregator built
AggregateInstalled ==
    AfterLoad /\ "_aggregateAllCountries" \in calls /\ CanRead(currentMetrics)

\* ... and the aggregator ran the rolling window calculator on it
CalculatorRan == AggregateInstalled /\ "_calculateRollingMetrics" \in calls

\* the combined series installed
AllAt == Get(Get(currentMetrics, "all"), "daily").at

AllDatesSet == DOMAIN AllAt

\* 0-based position of date d among the combined dates in ascending order
Position(d) == Cardinality({x \in AllDatesSet : x < d})

\* the combined dates at positions lo..hi
DatesAt(lo, hi) == {x \in AllDatesSet : Position(x) >= lo /\ Position(x) <= hi}

\* the record w positions before the record of d
Earlier(d, w) == AllAt[CHOOSE x \in AllDatesSet : Position(x) = Position(d) - w]

\* the sum of the combined pageviews over the w positions ending at d
WindowSum(d, w) ==
    SetSum([x \in AllDatesSet |-> AllAt[x].pageviews],
           DatesAt(Position(d) - w + 1, Position(d)))

\* the segments of the stored mapping that have a per-date mapping
Segments ==
    {k \in Range(ObjectKeys(stored.data)) : Truthy(Get(stored.data.at[k], "daily"))}

SegmentAt(k) == Get(stored.data.at[k], "daily").at

\* field f of segment k at date d, 0 when the record or the field is missing
SegmentValue(k, d, f) ==
    IF d \in DOMAIN SegmentAt(k) /\ Has(SegmentAt(k)[d], f) THEN SegmentAt(k)[d][f] ELSE 0

\* the sum over the segments of field f at date d
SegmentTotal(d, f) == SetSum([k \in Segments |-> SegmentValue(k, d, f)], Segments)

----------------------------------------------------------------------------
(* C1: the combined series built by _aggregateAllCountries has exactly the *)
(* union of the segments' dates, and at every date its pageviews is the    *)
(* sum of the segments' pageviews, a missing record or field counting 0.   *)

C1_AggregateSumsPageviews ==
    AggregateInstalled =>
        /\ AllDatesSet = UNION {DOMAIN SegmentAt(k) : k \in Segments}
        /\ Range(Get(Get(currentMetrics, "all"), "daily").keys) = AllDatesSet
        /\ \A d \in AllDatesSet : AllAt[d].pageviews = SegmentTotal(d, "pageviews")

\* two segments with different date sets and a record without pageviews
C1_Witness ==
    /\ AggregateInstalled
    /\ Cardinality(Segments) = 2
    /\ \E k \in Segments : \E d \in AllDatesSet : d \notin DOMAIN SegmentAt(k)
    /\ \E k \in Segments : \E d \in DOMAIN SegmentAt(k) : ~Has(SegmentAt(k)[d], "pageviews")
    /\ \E d \in AllDatesSet : \A k \in Segments : SegmentValue(k, d, "pageviews") > 0

----------------------------------------------------------------------------
(* C2 as stated: after the calculator has run, rolling_7 at index i is the *)
(* sum of pageviews[i-6..i] for i >= 6 and undefined for i < 6, and        *)
(* rolling_28 at index i is the sum of pageviews[i-27..i] for i >= 27 and  *)
(* undefined for i < 27.                                                   *)

----------------------------------------------------------------------------
(* C3: wherever growth_7 is computed it equals                             *)
(* (rolling_7[i] / rolling_7[i-7] - 1) * 100 with the rolling sums stored  *)
(* on the records, and it is computed only where both rolling sums are     *)
(* defined (i >= 13) and rolling_7[i-7] > 0; 14 days of 10 pageviews give  *)
(* rolling_7 = 70 and growth_7 = 0 on day 14.                              *)

C3_Growth7 ==
    CalculatorRan =>
        /\ \A d \in AllDatesSet :
              IF Position(d) >= 13 /\ Earlier(d, 7).rolling_7 > 0
              THEN AllAt[d].growth_7 = GrowthPct(AllAt[d].rolling_7, Earlier(d, 7).rolling_7)
              ELSE AllAt[d].growth_7 = Zero
        /\ stored = Doc(Keyed(<<"no">>, [k \in {"no"} |-> Country(LongDaily(14, 10, 10, 7))]))
              => AllAt[14].rolling_7 = 70 /\ AllAt[14].growth_7 = Zero

\* growth_7 computed with a fractional value on one record, and left alone
\* on another whose previous 7-day sum is 0
C3_Witness ==
    /\ CalculatorRan
    /\ \E d \in AllDatesSet : AllAt[d].growth_7[1] # 0 /\ AllAt[d].growth_7[2] > 1
    /\ \E d \in AllDatesSet : Position(d) >= 13 /\ Earlier(d, 7).rolling_7 = 0

----------------------------------------------------------------------------
(* C4 as stated: growth_7 (growth_28) is absent on every record whose      *)
(* rolling sum 7 (28) positions earlier is 0 or undefined.                 *)

PriorIsZeroOrMissing(d, w, f) == Position(d) < w \/ Earlier(d, w)[f] = 0

----------------------------------------------------------------------------
(* C5: running the calculator again on the series it produced changes no   *)
(* rolling_7, rolling_28, growth_7 or growth_28.                           *)

C5_CalculatorIdempotent ==
    CalculatorRan =>
        LET daily == Get(Get(currentMetrics, "all"), "daily")
            again == CalculateRollingMetrics(daily, Sort(daily.keys)).at
        IN \A d \in AllDatesSet :
              \A f \in {"rolling_7", "rolling_28", "growth_7", "growth_28"} :
                  again[d][f] = AllAt[d][f]

\* the first run filled both rolling sums and both growths with non-zero values
C5_Witness ==
    /\ CalculatorRan
    /\ \E d \in AllDatesSet : AllAt[d].rolling_7 > 0 /\ AllAt[d].rolling_28 > 0
    /\ \E d \in AllDatesSet : AllAt[d].growth_7 # Zero
    /\ \E d \in AllDatesSet : AllAt[d].growth_28 # Zero

----------------------------------------------------------------------------
(* C6: the calculator only fills absent fields: a record that carries a    *)
(* rolling_7 or rolling_28 value (supplied upstream) before the calculator *)
(* is applied has the same value afterwards.                               *)

C6_FillsAbsentOnly ==
    CalculatorRan =>
        \A d \in AllDatesSet :
            /\ SegmentTotal(d, "rolling_7") # 0
                  => AllAt[d].rolling_7 = SegmentTotal(d, "rolling_7")
            /\ SegmentTotal(d, "rolling_28") # 0
                  => AllAt[d].rolling_28 = SegmentTotal(d, "rolling_28")

----------------------------------------------------------------------------
(* C7 as stated: the rolling values of the combined series depend on the   *)
(* combined pageviews only: they are the ones the same input gives once    *)
(* the upstream rolling and growth fields are removed from its records.    *)

\* the record with only its pageviews
OnlyPageviews(rec) == [f \in (DOMAIN rec) \cap {"pageviews"} |-> rec[f]]

StripDaily(daily) == Obj(daily.keys, [d \in DOMAIN daily.at |-> OnlyPageviews(daily.at[d])])

\* the stored mapping with every upstream rolling and growth field removed
Stripped ==
    Obj(stored.data.keys,
        [k \in DOMAIN stored.data.at |->
            IF k \in Segments
            THEN Country(StripDaily(Get(stored.data.at[k], "daily")))
            ELSE stored.data.at[k]])

StrippedAt == Get(AggregateAllCountries(Stripped), "daily").at

----------------------------------------------------------------------------
(* C8: the shape loadData finds in a document with a data field.           *)

\* loadData has just run on a document whose data field is truthy
LoadedData == AfterLoad /\ stored.exists /\ Truthy(stored.data)

\* the branch loadData took, read off the methods it invoked
Branch ==
    CASE "showError" \in calls -> "unrecognized"
      [] "_aggregateAllCountries" \in calls -> "raw"
      [] "updateDashboard" \in calls -> "canonical"
      [] OTHER -> "throws"

DataKeys == ObjectKeys(stored.data)

ValueAt(i) == stored.data.at[DataKeys[i]]

HasDailyAt(i) == CanRead(ValueAt(i)) /\ Truthy(Get(ValueAt(i), "daily"))

HasAll == Truthy(Get(stored.data, "all"))

HasByCountry == Truthy(Get(stored.data, "by_country"))

\* a null value comes before every value that has a per-date mapping
NullComesFirst ==
    \E i \in DOMAIN DataKeys : ~CanRead(ValueAt(i)) /\ \A j \in 1..(i - 1) : ~HasDailyAt(j)

(* C8 as stated: canonical when all and by_country are present, raw when   *)
(* there is no all key and every value contains a per-date mapping,        *)
(* unrecognized otherwise; some values without a per-date mapping make the *)
(* input unrecognized.                                                     *)

C8_AsStated ==
    LoadedData =>
        Branch = IF HasAll /\ HasByCountry THEN "canonical"
                 ELSE IF /\ "all" \notin Range(DataKeys)
                         /\ DataKeys # <<>>
                         /\ \A i \in DOMAIN DataKeys : HasDailyAt(i)
                 THEN "raw"
                 ELSE "unrecognized"

(* C8 amended: canonical when all and by_country are both present          *)
(* (truthy); raw by-segment when all is absent (or falsy) and at least one *)
(* value contains a per-date mapping, so an input in which only some       *)
(* values contain one is accepted as raw; unrecognized otherwise.  When a  *)
(* null value is read before any value with a per-date mapping is found,   *)
(* the test throws and no case is chosen.                                  *)

C8_Classification ==
    LoadedData =>
        Branch = IF HasAll /\ HasByCountry THEN "canonical"
                 ELSE IF HasAll THEN "unrecognized"
                 ELSE IF NullComesFirst THEN "throws"
                 ELSE IF \E i \in DOMAIN DataKeys : HasDailyAt(i) THEN "raw"
                 ELSE "unrecognized"

\* accepted as raw although a value (a number or an object) has no per-date mapping
C8_Witness ==
    /\ LoadedData /\ Branch = "raw"
    /\ \E i \in DOMAIN DataKeys : CanRead(ValueAt(i)) /\ ~HasDailyAt(i)
    /\ CanRead(currentMetrics)

----------------------------------------------------------------------------
(* C9: on an input of unrecognized shape loadData shows the data-format    *)
(* error and does nothing else: no exception, the aggregator is not        *)
(* invoked, currentMetrics keeps its value (null before the only load) and *)
(* the dashboard is not updated.                                           *)

Unrecognized ==
    /\ LoadedData
    /\ ~(HasAll /\ HasByCountry)
    /\ HasAll \/ \A i \in DOMAIN DataKeys : CanRead(ValueAt(i)) /\ ~HasDailyAt(i)

C9_ReportsFormatError ==
    Unrecognized =>
        /\ errorShown = <<"Data format error. Please check the console.">>
        /\ thrown = <<>>
        /\ "_aggregateAllCountries" \notin calls
        /\ "updateDashboard" \notin calls
        /\ ~CanRead(currentMetrics)
        /\ cutoffDate = <<>> /\ ~cards.pageviews.set /\ ~charts.set

\* what does hold on such an input: showError is invoked, and nothing is
\* aggregated, installed or drawn
C9_NoOtherEffect ==
    Unrecognized =>
        /\ calls = {"loadData", "showError"}
        /\ ~CanRead(currentMetrics)
        /\ cutoffDate = <<>> /\ ~cards.pageviews.set /\ ~charts.set

----------------------------------------------------------------------------
(* C10: the series handed to the charts has exactly the dates of the       *)
(* requested segment's series that are <= the cutoff, in ascending order.  *)

\* the series of the segment selected when the last handler ran
Requested == Get(SelectedData(currentMetrics, filter), "daily")

C10_ChartDates ==
    "updateCharts" \in calls =>
        LET wanted == {d \in Range(Requested.keys) : d <= cutoffDate[1]}
        IN wanted # {} =>
              /\ charts.set
              /\ Range(charts.x) = wanted
              /\ Len(charts.x) = Cardinality(wanted)
              /\ \A i \in 1..(Len(charts.x) - 1) : charts.x[i] < charts.x[i + 1]
              /\ \A i \in DOMAIN charts.x :
                    charts.pageviews[i] = OrZero(Requested.at[charts.x[i]], "pageviews")

\* a series whose keys are not stored in ascending order and that has a date
\* after the cutoff, drawn for a single country
C10_Witness ==
    /\ "updateCharts" \in calls /\ charts.set /\ filter = "no"
    /\ \E d \in Range(Requested.keys) : d > cutoffDate[1]
    /\ \E i \in 1..(Len(Requested.keys) - 1) : Requested.keys[i] > Requested.keys[i + 1]
    /\ Len(charts.x) >= 2

----------------------------------------------------------------------------
(* C11: asking for a segment other than "all" that is not a key of         *)
(* by_country ends in a distinguished, recoverable outcome: the handler    *)
(* does not end in an uncaught exception and no series is drawn.           *)

\* updateDashboard has just run on an installed bundle for a segment that
\* is not a key of its by_country
SegmentMissing ==
    /\ "updateDashboard" \in calls
    /\ CanRead(currentMetrics)
    /\ filter # "all"
    /\ filter \notin Range(ObjectKeys(Get(currentMetrics, "by_country")))

C11_SegmentNotFoundRecoverable ==
    SegmentMissing => thrown = <<>> /\ "updateCharts" \notin calls

\* what does happen: the cutoff display is rewritten, then updateMetricCards
\* reads data.daily on undefined and the handler ends in a TypeError
C11_MissingSegmentThrows ==
    SegmentMissing =>
        /\ thrown # <<>>
        /\ cutoffDate # <<>>
        /\ "updateMetricCards" \in calls /\ "updateCharts" \notin calls

----------------------------------------------------------------------------
(* C12: when the record at the cutoff date or an earlier record of the     *)
(* series lacks rolling_7, rolling_28, growth_7 or growth_28, both         *)
(* updateMetricCards and updateCharts complete without throwing and show   *)
(* the missing value as 0.                                                 *)

Derived == {"rolling_7", "rolling_28", "growth_7", "growth_28"}

Incomplete(rec) == \E f \in Derived : ~Has(rec, f)

\* updateMetricCards has just been handed a series whose records all carry
\* pageviews and in which a record at or before the cutoff lacks a derived field
MissingDerived ==
    /\ "updateMetricCards" \in calls
    /\ CanRead(currentMetrics)
    /\ CanRead(SelectedData(currentMetrics, filter))
    /\ CanRead(Requested)
    /\ \A d \in DOMAIN Requested.at : Has(Requested.at[d], "pageviews")
    /\ \E d \in DOMAIN Requested.at : d <= cutoffDate[1] /\ Incomplete(Requested.at[d])

\* the record of the cutoff date is one of those that lack a derived field
CutoffIncomplete ==
    cutoffDate[1] \in DOMAIN Requested.at /\ Incomplete(Requested.at[cutoffDate[1]])

\* the charts show every integer field of the plotted records, 0 when missing
ChartsShowZeroForMissing ==
    /\ charts.set
    /\ \A i \in DOMAIN charts.x :
          LET rec == Requested.at[charts.x[i]]
          IN /\ charts.rolling7day[i] = (IF Has(rec, "rolling_7") THEN rec.rolling_7 ELSE 0)
             /\ charts.rolling28day[i] = (IF Has(rec, "rolling_28") THEN rec.rolling_28 ELSE 0)
             /\ Has(rec, "growth_7") \/ charts.growth7day[i] = Zero
             /\ Has(rec, "growth_28") \/ charts.growth28day[i] = Zero

C12_MissingFieldsRenderZero ==
    MissingDerived =>
        /\ thrown = <<>>
        /\ "updateCharts" \in calls
        /\ cards.pageviews.set /\ cards.visitors.set /\ cards.timeOnSite.set
        /\ ChartsShowZeroForMissing

\* what does hold: when the cutoff date itself has no record or a complete
\* one, nothing throws and the charts show 0 for what earlier records lack
C12_EarlierRecordsRenderZero ==
    MissingDerived /\ ~CutoffIncomplete =>
        /\ thrown = <<>>
        /\ "updateCharts" \in calls
        /\ cards.pageviews.set /\ cards.visitors.set /\ cards.timeOnSite.set
        /\ ChartsShowZeroForMissing

\* and when the cutoff date's record lacks one, updateMetricCards throws
\* after the first card and updateCharts is never called
C12_CutoffRecordThrows ==
    MissingDerived /\ CutoffIncomplete =>
        /\ thrown # <<>>
        /\ cards.pageviews.set
        /\ "updateCharts" \notin calls

----------------------------------------------------------------------------
(* C13: after every load that installs a bundle, at every date the         *)
(* pageviews of currentMetrics.all equals the sum of the pageviews of the  *)
(* series of currentMetrics.by_country; a document of the canonical shape  *)
(* that breaks this is not installed as it is.                             *)

\* loadData has just installed a bundle
Installed == AfterLoad /\ CanRead(currentMetrics)

InstalledByCountry == Get(currentMetrics, "by_country")

\* the keys of the installed by_country that hold a series
InstalledSegments ==
    {k \in Range(ObjectKeys(InstalledByCountry)) :
        /\ CanRead(InstalledByCountry.at[k])
        /\ Truthy(Get(InstalledByCountry.at[k], "daily"))}

InstalledAt(k) == Get(InstalledByCountry.at[k], "daily").at

\* pageviews of the installed series k at date d, 0 when missing
InstalledPageviews(k, d) ==
    IF d \in DOMAIN InstalledAt(k) /\ Has(InstalledAt(k)[d], "pageviews")
    THEN InstalledAt(k)[d].pageviews ELSE 0

\* pageviews of the installed all series at date d, 0 when missing
AllPageviews(d) ==
    IF d \in AllDatesSet /\ Has(AllAt[d], "pageviews") THEN AllAt[d].pageviews ELSE 0

\* all equals the date-wise sum of the series of by_country
BundleInvariant ==
    \A d \in AllDatesSet \cup UNION {DOMAIN InstalledAt(k) : k \in InstalledSegments} :
        AllPageviews(d) =
            SetSum([k \in InstalledSegments |-> InstalledPageviews(k, d)], InstalledSegments)

C13_InstalledBundleInvariant == Installed => BundleInvariant

\* what does hold: the bundle loadData builds from a raw document satisfies it
C13_AggregatedBundleInvariant == AggregateInstalled => BundleInvariant

\* a document of the canonical shape is installed unchanged, whatever it holds
C13_CanonicalInstalledAsIs ==
    Installed /\ "_aggregateAllCountries" \notin calls => currentMetrics = stored.data

----------------------------------------------------------------------------
(* C14: loadData never ends in an unhandled exception: on every document   *)
(* whose data field is an object it ends either with a bundle installed    *)
(* and the dashboard updated, or with an error message shown; also when    *)
(* the date union of a raw document is empty and when a value is null.     *)

\* loadData has just run on a document whose data field is an object
LoadedObject == AfterLoad /\ stored.exists /\ stored.data.t = "obj"

C14_LoadNeverThrows ==
    LoadedObject =>
        /\ thrown = <<>>
        /\ \/ CanRead(currentMetrics) /\ "updateDashboard" \in calls /\ cutoffDate # <<>>
           \/ errorShown # <<>>

\* a raw document in which every per-date mapping is empty
EmptyUnion ==
    /\ ~HasAll /\ Segments # {}
    /\ \A i \in DOMAIN DataKeys : CanRead(ValueAt(i))
    /\ \A k \in Segments : DOMAIN SegmentAt(k) = {}

\* a document that is not of the canonical shape and has a null value
NullValue ==
    /\ ~(HasAll /\ HasByCountry)
    /\ \E i \in DOMAIN DataKeys : ~CanRead(ValueAt(i))

\* what does happen on these documents and on those of unrecognized shape:
\* loadData ends in an uncaught TypeError, nothing is installed or shown
C14_TheseLoadsThrow ==
    LoadedObject /\ (EmptyUnion \/ NullValue \/ Unrecognized) =>
        /\ thrown = <<"loadData">>
        /\ errorShown = <<>>
        /\ ~CanRead(currentMetrics)
        /\ "updateDashboard" \notin calls

----------------------------------------------------------------------------
(* C15: in every interleaving of the asynchronous load and the change      *)
(* event of the country filter, updateDashboard never runs while           *)
(* currentMetrics is null: neither before loadData has installed a bundle  *)
(* nor after a load that ended in an error.                                *)

C15_NoUpdateWithoutBundle ==
    "updateDashboard" \in calls => CanRead(currentMetrics)

\* the last handler that ran was the change listener
AfterChange == "updateDashboard" \in calls /\ ~AfterLoad

\* what does happen: the listener is installed before getDoc resolves and
\* updateDashboard has no guard, so a change event delivered while no bundle
\* is installed reads a property of null and ends in a TypeError, before
\* the load completes as well as after a load that installed nothing
C15_ChangeWithoutBundleThrows ==
    AfterChange /\ ~CanRead(currentMetrics) =>
        /\ thrown = <<"change">>
        /\ calls = {"updateDashboard"}
        /\ cutoffDate = <<>> /\ ~cards.pageviews.set /\ ~charts.set

====
